---- MODULE Spec2Model ----
(***************************************************************************)
(* Model of the Rust SDK playground backend (src/sdks/rust/src/main.rs):   *)
(* the /transform and /validate handlers, the harness they generate, the   *)
(* external compiler and artifact they spawn, and the decoding of results. *)
(*                                                                         *)
(* Text is a sequence of one-character strings, so that trim, lines,       *)
(* contains, find, split and parse are computed as the code computes them. *)
(***************************************************************************)
EXTENDS Integers, Sequences, FiniteSets

(***************************************************************************)
(* Bounds of the model.                                                    *)
(***************************************************************************)
\* number of requests in flight in the concurrent specification
NumRequests == 2
\* nesting depth of the JSON payloads submitted as `event`
MaxDepth == 1
\* length of the JSON arrays submitted as `event`
MaxArr == 1
\* number of lines of a snippet
MaxSnippetLines == 2

(***************************************************************************)
(* Text: the str operations the handlers use.                              *)
(***************************************************************************)
Whitespace == {" ", "\n", "\t", "\r"}

Digit == <<"0","1","2","3","4","5","6","7","8","9">>

IsDigit(c) == \E i \in 1..10 : Digit[i] = c

DigitVal(c) == (CHOOSE i \in 1..10 : Digit[i] = c) - 1

\* usize / integer Display
RECURSIVE Digits(_)
Digits(n) == IF n < 10 THEN <<Digit[n + 1]>> ELSE Digits(n \div 10) \o <<Digit[(n % 10) + 1]>>

\* the suffix of s from 1-based index i
From(s, i) == SubSeq(s, i, Len(s))

StartsWith(s, p) == Len(p) <= Len(s) /\ SubSeq(s, 1, Len(p)) = p

\* str::find: the 0-based offset of the first occurrence of p, or -1
Find(s, p) ==
  LET hits == {i \in 1..(Len(s) - Len(p) + 1) : SubSeq(s, i, i + Len(p) - 1) = p}
  IN  IF hits = {} THEN -1 ELSE (CHOOSE i \in hits : \A j \in hits : i <= j) - 1

Contains(s, p) == Find(s, p) >= 0

\* str::trim
RECURSIVE TrimStart(_)
TrimStart(s) == IF s # <<>> /\ Head(s) \in Whitespace THEN TrimStart(Tail(s)) ELSE s

RECURSIVE TrimEnd(_)
TrimEnd(s) ==
  IF s # <<>> /\ s[Len(s)] \in Whitespace THEN TrimEnd(SubSeq(s, 1, Len(s) - 1)) ELSE s

Trim(s) == TrimEnd(TrimStart(s))

\* str::split(c): always at least one part
RECURSIVE Split(_, _)
Split(s, c) ==
  LET k == Find(s, <<c>>)
  IN  IF k < 0 THEN <<s>> ELSE <<SubSeq(s, 1, k)>> \o Split(From(s, k + 2), c)

StripCr(l) == IF l # <<>> /\ l[Len(l)] = "\r" THEN SubSeq(l, 1, Len(l) - 1) ELSE l

\* str::lines: split on "\n", a final empty piece dropped, a trailing "\r" stripped
Lines(s) ==
  LET parts == Split(s, "\n")
      kept  == IF parts[Len(parts)] = <<>> THEN SubSeq(parts, 1, Len(parts) - 1) ELSE parts
  IN  [i \in 1..Len(kept) |-> StripCr(kept[i])]

RECURSIVE DigitsVal(_, _)
DigitsVal(s, acc) == IF s = <<>> THEN acc ELSE DigitsVal(Tail(s), acc * 10 + DigitVal(Head(s)))

\* str::parse::<usize>().ok(): <<>> is None, <<n>> is Some(n)
ParseUsize(s) ==
  LET body == IF s # <<>> /\ Head(s) = "+" THEN Tail(s) ELSE s
  IN  IF body # <<>> /\ \A i \in 1..Len(body) : IsDigit(body[i])
      THEN <<DigitsVal(body, 0)>>
      ELSE <<>>

(***************************************************************************)
(* serde_json::Value.  Numbers are counted in tenths; isInt tells the      *)
(* integer representation (1) from the float one (1.0).  An object is its  *)
(* members in key order (serde_json's Map is a BTreeMap).                  *)
(***************************************************************************)
JNull == [t |-> "null"]

JBool(b) == [t |-> "bool", b |-> b]

JInt(n) == [t |-> "num", isInt |-> TRUE, tenths |-> 10 * n]

JFloat(tenths) == [t |-> "num", isInt |-> FALSE, tenths |-> tenths]

JStr(s) == [t |-> "str", s |-> s]

JArr(items) == [t |-> "arr", items |-> items]

JObj(members) == [t |-> "obj", members |-> members]

Abs(n) == IF n < 0 THEN -n ELSE n

Sign(n) == IF n < 0 THEN <<"-">> ELSE <<>>

\* serde_json's number formatting: an integer as its digits, a float with
\* its fraction (1.0 is "1.0")
NumberText(v) ==
  IF v.isInt
  THEN Sign(v.tenths) \o Digits(Abs(v.tenths) \div 10)
  ELSE Sign(v.tenths) \o Digits(Abs(v.tenths) \div 10) \o <<".">> \o Digits(Abs(v.tenths) % 10)

RECURSIVE Escape(_)
Escape(s) ==
  IF s = <<>> THEN <<>>
  ELSE (CASE Head(s) = "\"" -> <<"\\", "\"">>
          [] Head(s) = "\\" -> <<"\\", "\\">>
          [] Head(s) = "\n" -> <<"\\", "n">>
          [] OTHER -> <<Head(s)>>) \o Escape(Tail(s))

Quote(s) == <<"\"">> \o Escape(s) \o <<"\"">>

RECURSIVE to_string(_)
RECURSIVE JoinValues(_)
RECURSIVE JoinMembers(_)
\* serde_json::to_string (compact)
to_string(v) ==
  CASE v.t = "null" -> <<"n","u","l","l">>
    [] v.t = "bool" -> IF v.b THEN <<"t","r","u","e">> ELSE <<"f","a","l","s","e">>
    [] v.t = "num"  -> NumberText(v)
    [] v.t = "str"  -> Quote(v.s)
    [] v.t = "arr"  -> <<"[">> \o JoinValues(v.items) \o <<"]">>
    [] v.t = "obj"  -> <<"{">> \o JoinMembers(v.members) \o <<"}">>

JoinValues(items) ==
  IF items = <<>> THEN <<>>
  ELSE IF Len(items) = 1 THEN to_string(items[1])
  ELSE to_string(items[1]) \o <<",">> \o JoinValues(Tail(items))

JoinMembers(ms) ==
  IF ms = <<>> THEN <<>>
  ELSE IF Len(ms) = 1 THEN Quote(ms[1][1]) \o <<":">> \o to_string(ms[1][2])
  ELSE Quote(ms[1][1]) \o <<":">> \o to_string(ms[1][2]) \o <<",">> \o JoinMembers(Tail(ms))

(***************************************************************************)
(* serde_json::from_str, a recursive-descent parser over the text.  A      *)
(* parse step yields [ok, v, rest].  Numbers carry at most one fractional  *)
(* digit and no exponent, which is all the texts of this model contain.    *)
(***************************************************************************)
JsonWs == {" ", "\n", "\t", "\r"}

RECURSIVE SkipWs(_)
SkipWs(s) == IF s # <<>> /\ Head(s) \in JsonWs THEN SkipWs(Tail(s)) ELSE s

Fail == [ok |-> FALSE, v |-> JNull, rest |-> <<>>]

Got(v, rest) == [ok |-> TRUE, v |-> v, rest |-> rest]

RECURSIVE TakeDigits(_)
TakeDigits(s) == IF s # <<>> /\ IsDigit(Head(s)) THEN <<Head(s)>> \o TakeDigits(Tail(s)) ELSE <<>>

ParseNumber(s) ==
  LET neg   == s # <<>> /\ Head(s) = "-"
      s1    == IF neg THEN Tail(s) ELSE s
      ip    == TakeDigits(s1)
      s2    == From(s1, Len(ip) + 1)
      dot   == s2 # <<>> /\ Head(s2) = "."
      fp    == IF dot THEN TakeDigits(Tail(s2)) ELSE <<>>
      s3    == IF dot THEN From(s2, Len(fp) + 2) ELSE s2
      mag   == DigitsVal(ip, 0) * 10 + DigitsVal(fp, 0)
  IN  IF ip = <<>> \/ (Len(ip) > 1 /\ Head(ip) = "0") \/ (dot /\ Len(fp) # 1)
      THEN Fail
      ELSE Got([t |-> "num", isInt |-> ~dot, tenths |-> IF neg THEN -mag ELSE mag], s3)

\* the text after an opening quote: the unescaped content and what follows
\* the closing quote
RECURSIVE ParseChars(_, _)
ParseChars(s, acc) ==
  IF s = <<>> THEN Fail
  ELSE IF Head(s) = "\"" THEN Got(JStr(acc), Tail(s))
  ELSE IF Head(s) = "\\"
       THEN IF Len(s) < 2 THEN Fail
            ELSE IF s[2] = "n" THEN ParseChars(From(s, 3), acc \o <<"\n">>)
            ELSE IF s[2] \in {"\"", "\\"} THEN ParseChars(From(s, 3), acc \o <<s[2]>>)
            ELSE Fail
  ELSE IF Head(s) = "\n" THEN Fail
  ELSE ParseChars(Tail(s), acc \o <<Head(s)>>)

\* BTreeMap::insert: members stay in key order, a repeated key is replaced.
\* The keys of this model are single letters, ordered as in KeyOrder.
KeyOrder == <<"a", "b", "c">>

KeyRank(k) == IF k = <<>> THEN 0 ELSE CHOOSE i \in 1..Len(KeyOrder) : KeyOrder[i] = k[1]

RECURSIVE InsertMember(_, _, _)
InsertMember(ms, k, v) ==
  IF ms = <<>> THEN << <<k, v>> >>
  ELSE IF ms[1][1] = k THEN << <<k, v>> >> \o Tail(ms)
  ELSE IF KeyRank(k) < KeyRank(ms[1][1]) THEN << <<k, v>> >> \o ms
  ELSE <<ms[1]>> \o InsertMember(Tail(ms), k, v)

RECURSIVE ParseValue(_)
RECURSIVE ParseItems(_, _)
RECURSIVE ParseMembers(_, _)
ParseValue(s0) ==
  LET s == SkipWs(s0)
  IN  IF s = <<>> THEN Fail
      ELSE IF StartsWith(s, <<"n","u","l","l">>) THEN Got(JNull, From(s, 5))
      ELSE IF StartsWith(s, <<"t","r","u","e">>) THEN Got(JBool(TRUE), From(s, 5))
      ELSE IF StartsWith(s, <<"f","a","l","s","e">>) THEN Got(JBool(FALSE), From(s, 6))
      ELSE IF Head(s) = "\"" THEN ParseChars(Tail(s), <<>>)
      ELSE IF Head(s) = "["
           THEN IF SkipWs(Tail(s)) # <<>> /\ Head(SkipWs(Tail(s))) = "]"
                THEN Got(JArr(<<>>), Tail(SkipWs(Tail(s))))
                ELSE ParseItems(Tail(s), <<>>)
      ELSE IF Head(s) = "{"
           THEN IF SkipWs(Tail(s)) # <<>> /\ Head(SkipWs(Tail(s))) = "}"
                THEN Got(JObj(<<>>), Tail(SkipWs(Tail(s))))
                ELSE ParseMembers(Tail(s), <<>>)
      ELSE IF Head(s) = "-" \/ IsDigit(Head(s)) THEN ParseNumber(s)
      ELSE Fail

ParseItems(s, acc) ==
  LET r == ParseValue(s)
      t == SkipWs(r.rest)
  IN  IF ~r.ok \/ t = <<>> THEN Fail
      ELSE IF Head(t) = "]" THEN Got(JArr(acc \o <<r.v>>), Tail(t))
      ELSE IF Head(t) = "," THEN ParseItems(Tail(t), acc \o <<r.v>>)
      ELSE Fail

ParseMembers(s0, acc) ==
  LET s == SkipWs(s0)
      k == IF s # <<>> /\ Head(s) = "\"" THEN ParseChars(Tail(s), <<>>) ELSE Fail
      c == SkipWs(k.rest)
      r == IF k.ok /\ c # <<>> /\ Head(c) = ":" THEN ParseValue(Tail(c)) ELSE Fail
      t == SkipWs(r.rest)
  IN  IF ~r.ok \/ t = <<>> THEN Fail
      ELSE IF Head(t) = "}" THEN Got(JObj(InsertMember(acc, k.v.s, r.v)), Tail(t))
      ELSE IF Head(t) = "," THEN ParseMembers(Tail(t), InsertMember(acc, k.v.s, r.v))
      ELSE Fail

\* serde_json::from_str: one value and nothing but whitespace after it;
\* <<>> is Err, <<v>> is Ok(v)
from_str(s) ==
  LET r == ParseValue(s)
  IN  IF r.ok /\ SkipWs(r.rest) = <<>> THEN <<r.v>> ELSE <<>>

(***************************************************************************)
(* The JSON payloads a caller submits as `event`.                          *)
(***************************************************************************)
Scalars ==
  { JNull, JBool(TRUE), JInt(1), JFloat(5), JFloat(10), JStr(<<"a", " ", "\"">>) }

SeqsUpTo(S, n) == UNION {[1..k -> S] : k \in 0..n}

RECURSIVE ValuesOfDepth(_)
ValuesOfDepth(d) ==
  IF d = 0 THEN Scalars
  ELSE LET inner == ValuesOfDepth(d - 1)
       IN  inner
           \cup {JArr(items) : items \in SeqsUpTo(inner, MaxArr)}
           \cup {JObj(<<>>)}
           \cup {JObj(<< <<(<<"a">>), v>> >>) : v \in inner}
           \cup {JObj(<< <<(<<"a">>), v>>, <<(<<"b">>), JNull>> >>) : v \in Scalars}

Events == ValuesOfDepth(MaxDepth)

(***************************************************************************)
(* The snippet.  The handlers never read it: only the compiler and the     *)
(* built artifact do, so a snippet is what those two see of it: its number *)
(* of lines, the line carrying an error of its own (0: none), the shape of *)
(* its final expression, whether it panics when run and whether it prints  *)
(* to stdout before returning.                                             *)
(***************************************************************************)
RetShapes ==
  { "SomeEvent", "Event", "None", "Unit", "SomeJson", "Half", "One", "NaN",
    "F32Half", "I32One", "I64One", "Str" }

Code(n, bad, ret, aborts, prints) ==
  [lines |-> n, bad |-> bad, ret |-> ret, aborts |-> aborts, prints |-> prints]

\* snippets that return the payload unchanged: `Some(event)` and `event`
KeepSnippets ==
  {Code(n, 0, ret, FALSE, FALSE) : n \in 1..MaxSnippetLines, ret \in {"SomeEvent", "Event"}}

Snippets ==
  KeepSnippets
  \cup {Code(1, 0, ret, FALSE, FALSE) : ret \in RetShapes}
  \cup UNION {{Code(n, k, "SomeEvent", FALSE, FALSE) : k \in 1..n} : n \in 1..MaxSnippetLines}
  \cup {Code(1, 0, "SomeEvent", TRUE, FALSE)}
  \cup {Code(1, 0, ret, FALSE, TRUE) : ret \in {"SomeEvent", "None"}}

\* the Rust type of the snippet's final expression
RetType(ret) ==
  CASE ret \in {"SomeEvent", "None", "SomeJson"} -> "Option<Value>"
    [] ret = "Event" -> "Value"
    [] ret = "Unit" -> "()"
    [] ret \in {"Half", "One", "NaN"} -> "f64"
    [] ret = "F32Half" -> "f32"
    [] ret = "I32One" -> "i32"
    [] ret = "I64One" -> "i64"
    [] ret = "Str" -> "&str"

\* `Some(json!({}))` needs the json macro in scope
UsesJsonMacro(ret) == ret = "SomeJson"

\* a bare `None` has no type of its own: its context must give one
NeedsTypeContext(ret) == ret = "None"

(***************************************************************************)
(* The harness templates, line by line, with {} where the snippet goes.    *)
(***************************************************************************)
TransformTemplate ==
  << "#![allow(unused_imports)]",
     "#![allow(unused_variables)]",
     "#![allow(unused_mut)]",
     "",
     "use serde_json::{json, Value};",
     "",
     "/// Result type that supports both event transforms and sample rates",
     "enum TransformResult {",
     "    Event(Option<Value>),",
     "    SampleRate(f64),",
     "}",
     "",
     "impl From<Option<Value>> for TransformResult {",
     "    fn from(v: Option<Value>) -> Self {",
     "        TransformResult::Event(v)",
     "    }",
     "}",
     "",
     "impl From<Value> for TransformResult {",
     "    fn from(v: Value) -> Self {",
     "        TransformResult::Event(Some(v))",
     "    }",
     "}",
     "",
     "impl From<f64> for TransformResult {",
     "    fn from(v: f64) -> Self {",
     "        TransformResult::SampleRate(v)",
     "    }",
     "}",
     "",
     "impl From<f32> for TransformResult {",
     "    fn from(v: f32) -> Self {",
     "        TransformResult::SampleRate(v as f64)",
     "    }",
     "}",
     "",
     "impl From<i32> for TransformResult {",
     "    fn from(v: i32) -> Self {",
     "        TransformResult::SampleRate(v as f64)",
     "    }",
     "}",
     "",
     "impl From<i64> for TransformResult {",
     "    fn from(v: i64) -> Self {",
     "        TransformResult::SampleRate(v as f64)",
     "    }",
     "}",
     "",
     "impl From<()> for TransformResult {",
     "    fn from(_: ()) -> Self {",
     "        TransformResult::Event(None)",
     "    }",
     "}",
     "",
     "fn main() {",
     "    // Read event from file (avoids string escaping issues)",
     "    let event_json = std::fs::read_to_string(\"event.json\").expect(\"Failed to read event.json\");",
     "    let mut event: Value = serde_json::from_str(&event_json).expect(\"Failed to parse event JSON\");",
     "",
     "    // Execute user's code and convert result to TransformResult",
     "    // The .into() call handles type conversion automatically",
     "    let result: TransformResult = (|| {",
     "        {}",
     "    })().into();",
     "",
     "    // Output result as JSON",
     "    match result {",
     "        TransformResult::Event(Some(transformed)) => {",
     "            println!(\"{}\", serde_json::to_string(&transformed).unwrap());",
     "        }",
     "        TransformResult::Event(None) => {",
     "            println!(\"null\");",
     "        }",
     "        TransformResult::SampleRate(rate) => {",
     "            println!(\"{}\", rate);",
     "        }",
     "    }",
     "}" >>

ValidateTemplate ==
  << "#![allow(unused_imports)]",
     "#![allow(unused_variables)]",
     "#![allow(unused_mut)]",
     "",
     "use serde_json::Value;",
     "",
     "fn main() {",
     "    let mut event: Value = serde_json::json!({});",
     "    let _result = (|| {",
     "        {}",
     "    })();",
     "}" >>

Template(name) == IF name = "transform" THEN TransformTemplate ELSE ValidateTemplate

Hole == "        {}"

HasLine(tpl, l) == \E i \in 1..Len(tpl) : tpl[i] = l

\* the number of template lines before the snippet
PrefixLines(tpl) == (CHOOSE i \in 1..Len(tpl) : tpl[i] = Hole) - 1

\* format!(template, code): the file written as src/main.rs
main_rs(name, code) == [template |-> name, code |-> code]

ImplLine(ty) ==
  CASE ty = "Option<Value>" -> "impl From<Option<Value>> for TransformResult {"
    [] ty = "Value" -> "impl From<Value> for TransformResult {"
    [] ty = "f64" -> "impl From<f64> for TransformResult {"
    [] ty = "f32" -> "impl From<f32> for TransformResult {"
    [] ty = "i32" -> "impl From<i32> for TransformResult {"
    [] ty = "i64" -> "impl From<i64> for TransformResult {"
    [] ty = "()" -> "impl From<()> for TransformResult {"
    [] OTHER -> "impl From<?> for TransformResult {"

\* the harness converts the closure's result with .into()
Coerces(tpl) == HasLine(tpl, "    })().into();")

ImportsJson(tpl) == HasLine(tpl, "use serde_json::{json, Value};")

\* the manifests written as Cargo.toml
cargo_toml(name) ==
  IF name = "transform"
  THEN [name |-> "transform", deps |-> {"serde", "serde_json"}]
  ELSE [name |-> "validate", deps |-> {"serde_json"}]

(***************************************************************************)
(* The compiler (cargo build / cargo check), as far as the handlers can    *)
(* tell: where it finds the first error of a harness, and what it writes   *)
(* to stderr.                                                              *)
(***************************************************************************)
\* <<>>: the harness compiles; <<[line, col]>>: the first error's position
\* in src/main.rs
Diagnose(src) ==
  LET tpl  == Template(src.template)
      pre  == PrefixLines(tpl)
      code == src.code
  IN  IF code.bad # 0 /\ code.bad <= code.lines
        THEN <<[line |-> pre + code.bad, col |-> IF code.bad = 1 THEN 9 ELSE 1]>>
      ELSE IF UsesJsonMacro(code.ret) /\ ~ImportsJson(tpl)
        THEN <<[line |-> pre + code.lines, col |-> IF code.lines = 1 THEN 9 ELSE 1]>>
      ELSE IF NeedsTypeContext(code.ret) /\ ~Coerces(tpl)
        THEN <<[line |-> pre + code.lines, col |-> IF code.lines = 1 THEN 9 ELSE 1]>>
      ELSE IF Coerces(tpl) /\ ~HasLine(tpl, ImplLine(RetType(code.ret)))
        THEN <<[line |-> pre + code.lines + 1, col |-> 11]>>
      ELSE <<>>

\* the layouts of stderr the model lets the compiler produce: rustc's own
\* (the marker on the line after the error), the one-line layout the comment
\* in parse_rust_errors describes, a text with no marker, a marker with no
\* colon after it, a marker whose line is no number, and rustc's layout
\* followed by the quoted source line, which here reads `error -->`
StderrFormats == {"rustc", "inline", "nomarker", "nocolon", "badline", "quoted"}

TxtErrorHead == <<"e","r","r","o","r","[","E","0","3","0","8","]",":"," ","b","a","d">>

TxtArrow == <<" ","-","-",">"," ","s","r","c","/","m","a","i","n",".","r","s",":">>

Nl == <<"\n">>

CompilerStderr(fmt, at) ==
  CASE fmt = "rustc" ->
         TxtErrorHead \o Nl \o <<" ">> \o TxtArrow \o Digits(at.line) \o <<":">> \o Digits(at.col) \o Nl
    [] fmt = "inline" ->
         TxtErrorHead \o TxtArrow \o Digits(at.line) \o <<":">> \o Digits(at.col) \o Nl
    [] fmt = "nomarker" ->
         Nl \o <<"w","a","r","n","i","n","g",":"," ","w">> \o Nl \o <<"e","r","r","o","r",":"," ","E">> \o Nl
    [] fmt = "nocolon" ->
         <<"n","o","t","e">> \o Nl \o <<"e","r","r","o","r"," ","-","-",">"," ","x">> \o Nl
    [] fmt = "badline" ->
         <<"n","o","t","e">> \o Nl \o <<"e","r","r","o","r",":"," ","E">> \o Nl \o <<"e","r","r","o","r"," ","-","-",">"," ","s","r","c","/","m","a","i","n",".","r","s",":","x",":","y">> \o Nl
    [] fmt = "quoted" ->
         TxtErrorHead \o Nl \o <<" ">> \o TxtArrow \o Digits(at.line) \o <<":">> \o Digits(at.col) \o Nl
           \o Digits(at.line) \o <<" ","|"," ","e","r","r","o","r"," ","-","-",">">> \o Nl

\* Command::output() of the compiler run in a project directory holding
\* `files`: the exit status, stderr, and the artifact a full build leaves
Compile(files, mode, fmt) ==
  LET src == files.main_rs[1]
      at  == Diagnose(src)
  IN  IF files.main_rs = <<>> \/ files.cargo_toml = <<>> \/ ~files.src
        THEN [status |-> 101, stderr |-> <<"e","r","r","o","r",":"," ","E">> \o Nl, artifact |-> <<>>]
      ELSE IF at # <<>>
        THEN [status |-> 101, stderr |-> CompilerStderr(fmt, at[1]), artifact |-> <<>>]
      ELSE [status |-> 0, stderr |-> <<>>,
            artifact |-> IF mode = "build"
                         THEN <<[name |-> files.cargo_toml[1].name, src |-> src]>>
                         ELSE <<>>]

(***************************************************************************)
(* The built artifact: main() of the transform harness.                    *)
(***************************************************************************)
Event(some, v) == [tag |-> "Event", some |-> some, v |-> v, nan |-> FALSE, tenths |-> 0]

SampleRate(nan, tenths) ==
  [tag |-> "SampleRate", some |-> FALSE, v |-> JNull, nan |-> nan, tenths |-> tenths]

\* the closure's value converted by .into(): the From impls of the harness
TransformResult(ret, event) ==
  CASE ret \in {"SomeEvent", "Event"} -> Event(TRUE, event)
    [] ret = "SomeJson" -> Event(TRUE, JObj(<<>>))
    [] ret \in {"None", "Unit"} -> Event(FALSE, JNull)
    [] ret \in {"Half", "F32Half"} -> SampleRate(FALSE, 5)
    [] ret \in {"One", "I32One", "I64One"} -> SampleRate(FALSE, 10)
    [] ret = "NaN" -> SampleRate(TRUE, 0)
    [] OTHER -> Event(FALSE, JNull)

\* f64's Display: 1.0 prints as 1, 0.5 as 0.5
DisplayF64(nan, tenths) ==
  IF nan THEN <<"N","a","N">>
  ELSE IF tenths % 10 = 0 THEN Sign(tenths) \o Digits(Abs(tenths) \div 10)
  ELSE Sign(tenths) \o Digits(Abs(tenths) \div 10) \o <<".">> \o Digits(Abs(tenths) % 10)

\* the match that prints the result
PrintResult(result) ==
  IF result.tag = "Event"
  THEN IF result.some THEN to_string(result.v) \o Nl ELSE <<"n","u","l","l">> \o Nl
  ELSE DisplayF64(result.nan, result.tenths) \o Nl

Exited(status, out, err) == [status |-> status, stdout |-> out, stderr |-> err]

\* Command::output() of the artifact run in a project directory holding `files`
RunArtifact(bin, files) ==
  LET code   == bin.src.code
      parsed == from_str(files.event_json[1])
      noise  == IF code.prints THEN <<"l","o","g">> \o Nl ELSE <<>>
  IN  IF bin.src.template # "transform" THEN Exited(0, <<>>, <<>>)
      ELSE IF files.event_json = <<>> THEN Exited(101, <<>>, <<"F","a","i","l","e","d"," ","t","o"," ","r","e","a","d"," ","e","v","e","n","t",".","j","s","o","n">> \o Nl)
      ELSE IF parsed = <<>> THEN Exited(101, <<>>, <<"F","a","i","l","e","d"," ","t","o"," ","p","a","r","s","e"," ","e","v","e","n","t"," ","J","S","O","N">> \o Nl)
      ELSE IF code.aborts THEN Exited(101, noise, <<"p","a","n","i","c","k","e","d">> \o Nl)
      ELSE Exited(0, noise \o PrintResult(TransformResult(code.ret, parsed[1])), <<>>)

(***************************************************************************)
(* The handlers' own functions and the responses they build.  An Option is *)
(* a sequence of length 0 (None) or 1 (Some).                              *)
(***************************************************************************)
TransformResponse(success, transformed_event, error, traceback) ==
  [success |-> success, transformedEvent |-> transformed_event,
   error |-> error, traceback |-> traceback]

ValidationError(line, column, message) ==
  [line |-> line, column |-> column, message |-> message]

ValidationResponse(valid, errors) == [valid |-> valid, errors |-> errors]

HttpResponse(status, body) == [status |-> status, body |-> body]

\* the io::Error text of a failed filesystem or spawn call
OsError == <<"E","I","O">>

InternalServerError(prefix) ==
  HttpResponse(500, TransformResponse(FALSE, <<>>, <<prefix \o OsError>>, <<>>))

ValidationServiceError ==
  HttpResponse(500, ValidationResponse(FALSE,
    <<ValidationError(<<>>, <<>>, <<"V","a","l","i","d","a","t","i","o","n"," ","s","e","r","v","i","c","e"," ","e","r","r","o","r",":"," ">> \o OsError)>>))

\* Iterator::find over the lines, given the indices that pass the test
FirstOf(ls, hits) ==
  IF hits = {} THEN <<>> ELSE <<ls[CHOOSE i \in hits : \A j \in hits : i <= j]>>

IsErrorLine(l) == StartsWith(l, <<"e","r","r","o","r","[","E">>) \/ StartsWith(l, <<"e","r","r","o","r",":">>)

IsNonEmptyLine(l) == Trim(l) # <<>>

\* the first line that starts a compiler error
FirstErrorLine(ls) == FirstOf(ls, {i \in 1..Len(ls) : IsErrorLine(ls[i])})

\* error_msg.lines().find(|l| !l.trim().is_empty())
FirstNonEmpty(ls) == FirstOf(ls, {i \in 1..Len(ls) : IsNonEmptyLine(ls[i])})

extract_error_summary(error_msg) ==
  LET ls    == Lines(error_msg)
      first == FirstErrorLine(ls)
      other == FirstNonEmpty(ls)
  IN  IF first # <<>> THEN first[1]
      ELSE IF other # <<>> THEN other[1]
      ELSE <<"U","n","k","n","o","w","n"," ","c","o","m","p","i","l","a","t","i","o","n"," ","e","r","r","o","r">>

\* the number parse_rust_errors subtracts from a reported line
LineOffset == 8

SaturatingSub(n, k) == IF n >= k THEN n - k ELSE 0

\* .map(|n| n.saturating_sub(8)) over the parsed line
AdjustLine(o) == IF o = <<>> THEN <<>> ELSE <<SaturatingSub(o[1], LineOffset)>>

\* the loop of parse_rust_errors over the lines left; panic: the slice
\* &line[pos + 4..] starts past the end of the line
RECURSIVE ScanErrorLines(_, _)
ScanErrorLines(ls, error_msg) ==
  IF ls = <<>> THEN [panic |-> FALSE, errors |-> <<>>]
  ELSE LET line == Head(ls)
           pos  == Find(line, <<"-","-",">">>)
           location == From(line, pos + 5)
           parts == Split(location, ":")
       IN  IF Contains(line, <<"e","r","r","o","r">>) /\ Contains(line, <<"-","-",">">>)
           THEN IF pos + 4 > Len(line) THEN [panic |-> TRUE, errors |-> <<>>]
                ELSE IF Len(parts) >= 2
                THEN [panic |-> FALSE,
                      errors |-> <<ValidationError(
                                     AdjustLine(ParseUsize(Trim(parts[2]))),
                                     IF Len(parts) >= 3 THEN ParseUsize(Trim(parts[3])) ELSE <<>>,
                                     extract_error_summary(error_msg))>>]
                ELSE ScanErrorLines(Tail(ls), error_msg)
           ELSE ScanErrorLines(Tail(ls), error_msg)

parse_rust_errors(error_msg) == ScanErrorLines(Lines(error_msg), error_msg)

\* a fallback that keeps only the summary line
FallbackSummary(error_msg) ==
  <<ValidationError(<<>>, <<>>, extract_error_summary(error_msg))>>

\* the diagnostic validate builds when parse_rust_errors found none
FallbackErrors(error_msg) == <<ValidationError(<<>>, <<>>, error_msg)>>

\* an exit status that is never looked at
AnyStatus(status) == TRUE

\* ExitStatus::success
StatusSuccess(status) == status = 0

CompileErrorResponse(error_msg) ==
  HttpResponse(400, TransformResponse(FALSE, <<>>,
    <<<<"C","o","m","p","i","l","a","t","i","o","n"," ","e","r","r","o","r",":"," ">> \o extract_error_summary(error_msg)>>, <<error_msg>>))

RuntimeErrorResponse(error_msg) ==
  HttpResponse(500, TransformResponse(FALSE, <<>>,
    <<<<"R","u","n","t","i","m","e"," ","e","r","r","o","r",":"," ">> \o error_msg>>, <<error_msg>>))

\* serde_json's error text for an unparseable result
ParseErrorText == <<"e","x","p","e","c","t","e","d"," ","v","a","l","u","e">>

\* a parse failure that hands the artifact's output back as a traceback
ParseFailureWithTraceback(output_str) ==
  HttpResponse(500, TransformResponse(FALSE, <<>>,
    <<output_str \o ParseErrorText>>, <<output_str>>))

ParseFailureResponse(output_str) ==
  HttpResponse(500, TransformResponse(FALSE, <<>>,
    <<<<"F","a","i","l","e","d"," ","t","o"," ","p","a","r","s","e"," ","r","e","s","u","l","t"," ","'">> \o output_str \o <<"'",":"," ">> \o ParseErrorText>>, <<>>))

\* a decoding with no discard token: null is a value like any other
DecodeWithoutDiscard(output_str) ==
  LET parsed == from_str(output_str)
  IN  IF parsed # <<>> THEN [ok |-> TRUE, value |-> <<parsed[1]>>]
      ELSE [ok |-> FALSE, value |-> <<>>]

\* the decoding of the artifact's trimmed stdout: [ok, value], value an Option
DecodeOutput(output_str) ==
  IF output_str = <<"n","u","l","l">> THEN [ok |-> TRUE, value |-> <<>>]
  ELSE LET parsed == from_str(output_str)
       IN  IF parsed # <<>> THEN [ok |-> TRUE, value |-> <<parsed[1]>>]
           ELSE [ok |-> FALSE, value |-> <<>>]

\* the tail of transform, from the artifact's output to the response
ExecResponse(out) ==
  LET output_str == Trim(out.stdout)
      decoded    == DecodeOutput(output_str)
  IN  IF ~StatusSuccess(out.status) THEN RuntimeErrorResponse(out.stderr)
      ELSE IF ~decoded.ok THEN ParseFailureResponse(output_str)
      ELSE HttpResponse(200, TransformResponse(TRUE, decoded.value, <<>>, <<>>))

\* the tail of validate, from the compiler's output to the response
CheckResponse(out) ==
  LET errors == parse_rust_errors(out.stderr).errors
  IN  IF ~StatusSuccess(out.status)
      THEN HttpResponse(200, ValidationResponse(FALSE,
             IF errors = <<>> THEN FallbackErrors(out.stderr) ELSE errors))
      ELSE HttpResponse(200, ValidationResponse(TRUE, <<>>))

(***************************************************************************)
(* Requests.  Besides the caller's input a request carries what the        *)
(* environment does to it: the call that fails with an io::Error (fault)   *)
(* and the layout of the compiler's stderr (fmt).                          *)
(***************************************************************************)
Request(kind, event, code, fault, fmt) ==
  [kind |-> kind, event |-> event, code |-> code, fault |-> fault, fmt |-> fmt]

BaseEvent == JObj(<< <<(<<"a">>), JInt(1)>> >>)

BaseCode == Code(1, 0, "SomeEvent", FALSE, FALSE)

TransformFaults ==
  {"tempdir", "src", "cargo_toml", "event_json", "main_rs", "spawn_cargo", "spawn_bin"}

ValidateFaults == {"tempdir", "src", "cargo_toml", "main_rs", "spawn_cargo"}

TransformRequests ==
  {Request("transform", e, c, "none", "rustc") : e \in Events, c \in KeepSnippets}
  \cup {Request("transform", BaseEvent, c, "none", f) : c \in Snippets, f \in StderrFormats}
  \cup {Request("transform", BaseEvent, BaseCode, f, "rustc") : f \in TransformFaults}

ValidationRequests ==
  {Request("validate", JNull, c, "none", f) : c \in Snippets, f \in StderrFormats}
  \cup {Request("validate", JNull, BaseCode, f, "rustc") : f \in ValidateFaults}

Requests == TransformRequests \cup ValidationRequests

\* the requests of the concurrent specification: two payloads kept, a
\* compile failure, a valid and an invalid validation
ConcurrentRequests ==
  { Request("transform", JInt(1), BaseCode, "none", "rustc"),
    Request("transform", JBool(TRUE), Code(1, 0, "Event", FALSE, FALSE), "none", "rustc"),
    Request("transform", BaseEvent, Code(1, 0, "Str", FALSE, FALSE), "none", "rustc"),
    Request("validate", JNull, BaseCode, "none", "rustc"),
    Request("validate", JNull, Code(1, 1, "SomeEvent", FALSE, FALSE), "none", "inline") }

NoRequest == Request("none", JNull, BaseCode, "none", "rustc")

(***************************************************************************)
(* State.                                                                  *)
(***************************************************************************)
VARIABLES
  pc,     \* where each request's handler stands
  req,    \* the request each handler is serving
  ws,     \* the temp_dir each handler holds (0: none)
  disk,   \* the temporary directories, by name
  resp,   \* the response each handler returned (an Option)
  hist    \* what each handler did, kept for the properties

vars == <<pc, req, ws, disk, resp, hist>>

Handlers == 1..NumRequests

\* the directory names tempfile can draw
Names == 1..NumRequests

NoDir ==
  [exists |-> FALSE, owner |-> 0, src |-> FALSE, cargo_toml |-> <<>>,
   event_json |-> <<>>, main_rs |-> <<>>, artifact |-> <<>>]

NewDir(r) == [NoDir EXCEPT !.exists = TRUE, !.owner = r]

NoHistory ==
  [opened |-> 0, released |-> 0, builds |-> 0, checks |-> 0, execs |-> 0,
   wrote |-> {}, panicked |-> FALSE, build |-> <<>>, exec |-> <<>>]

Init ==
  /\ pc = [r \in Handlers |-> "idle"]
  /\ req = [r \in Handlers |-> NoRequest]
  /\ ws = [r \in Handlers |-> 0]
  /\ disk = [n \in Names |-> NoDir]
  /\ resp = [r \in Handlers |-> <<>>]
  /\ hist = [r \in Handlers |-> NoHistory]

\* a directory name drawn without regard to the directories that exist
AnyName(d) == Names

\* tempfile::tempdir draws a name no existing directory has
FreshNames(d) == {n \in Names : ~d[n].exists}

\* a temp_dir that is leaked instead of removed
LeakDir(d, n) == d

\* TempDir's Drop: remove_dir_all of the directory
RemoveDirAll(d, n) == [d EXCEPT ![n] = NoDir]

Goto(r, label) == pc' = [pc EXCEPT ![r] = label]

\* `return response`: the locals are dropped next
Return(r, response) ==
  /\ resp' = [resp EXCEPT ![r] = <<response>>]
  /\ pc' = [pc EXCEPT ![r] = IF ws[r] = 0 THEN "done" ELSE "drop"]

ServiceError(r, prefix) ==
  IF req[r].kind = "transform" THEN InternalServerError(prefix) ELSE ValidationServiceError

Wrote(r, file) == hist' = [hist EXCEPT ![r].wrote = @ \cup {file}]

(***************************************************************************)
(* The steps of transform and validate.                                    *)
(***************************************************************************)
\* a request arrives: web::Json<...> handed to the handler
Receive(r, inputs) ==
  /\ pc[r] = "idle"
  /\ \E q \in inputs : req' = [req EXCEPT ![r] = q]
  /\ Goto(r, "tempdir")
  /\ UNCHANGED <<ws, disk, resp, hist>>

\* tempfile::tempdir()
TempDir(r) ==
  /\ pc[r] = "tempdir"
  /\ IF req[r].fault = "tempdir"
     THEN /\ Return(r, ServiceError(r, <<"F","a","i","l","e","d"," ","t","o"," ","c","r","e","a","t","e"," ","t","e","m","p"," ","d","i","r","e","c","t","o","r","y",":"," ">>))
          /\ UNCHANGED <<ws, disk, hist>>
     ELSE \E n \in FreshNames(disk) :
            /\ ws' = [ws EXCEPT ![r] = n]
            /\ disk' = [disk EXCEPT ![n] = NewDir(r)]
            /\ hist' = [hist EXCEPT ![r].opened = @ + 1]
            /\ Goto(r, "src")
            /\ UNCHANGED resp
  /\ UNCHANGED req

\* fs::create_dir(&src_path)
CreateSrc(r) ==
  /\ pc[r] = "src"
  /\ IF req[r].fault = "src" \/ ~disk[ws[r]].exists \/ disk[ws[r]].src
     THEN /\ Return(r, ServiceError(r, <<"F","a","i","l","e","d"," ","t","o"," ","c","r","e","a","t","e"," ","s","r","c"," ","d","i","r","e","c","t","o","r","y",":"," ">>))
          /\ UNCHANGED <<disk, hist>>
     ELSE /\ disk' = [disk EXCEPT ![ws[r]].src = TRUE]
          /\ Goto(r, "cargo_toml")
          /\ UNCHANGED <<resp, hist>>
  /\ UNCHANGED <<req, ws>>

\* fs::write(project_path.join("Cargo.toml"), cargo_toml)
WriteCargoToml(r) ==
  /\ pc[r] = "cargo_toml"
  /\ IF req[r].fault = "cargo_toml" \/ ~disk[ws[r]].exists
     THEN /\ Return(r, ServiceError(r, <<"F","a","i","l","e","d"," ","t","o"," ","w","r","i","t","e"," ","C","a","r","g","o",".","t","o","m","l",":"," ">>))
          /\ UNCHANGED <<disk, hist>>
     ELSE /\ disk' = [disk EXCEPT ![ws[r]].cargo_toml = <<cargo_toml(req[r].kind)>>]
          /\ Wrote(r, "Cargo.toml")
          /\ Goto(r, IF req[r].kind = "transform" THEN "event_json" ELSE "main_rs")
          /\ UNCHANGED resp
  /\ UNCHANGED <<req, ws>>

\* serde_json::to_string(&req.event), then
\* fs::write(project_path.join("event.json"), &event_json)
WriteEventJson(r) ==
  /\ pc[r] = "event_json"
  /\ IF req[r].fault = "event_json" \/ ~disk[ws[r]].exists
     THEN /\ Return(r, InternalServerError(<<"F","a","i","l","e","d"," ","t","o"," ","w","r","i","t","e"," ","e","v","e","n","t",".","j","s","o","n",":"," ">>))
          /\ UNCHANGED <<disk, hist>>
     ELSE /\ disk' = [disk EXCEPT ![ws[r]].event_json = <<to_string(req[r].event)>>]
          /\ Wrote(r, "event.json")
          /\ Goto(r, "main_rs")
          /\ UNCHANGED resp
  /\ UNCHANGED <<req, ws>>

\* format!(template, code), then fs::write(src_path.join("main.rs"), main_rs)
WriteMainRs(r) ==
  /\ pc[r] = "main_rs"
  /\ IF req[r].fault = "main_rs" \/ ~disk[ws[r]].exists \/ ~disk[ws[r]].src
     THEN /\ Return(r, ServiceError(r, <<"F","a","i","l","e","d"," ","t","o"," ","w","r","i","t","e"," ","m","a","i","n",".","r","s",":"," ">>))
          /\ UNCHANGED <<disk, hist>>
     ELSE /\ disk' = [disk EXCEPT ![ws[r]].main_rs = <<main_rs(req[r].kind, req[r].code)>>]
          /\ Wrote(r, "main.rs")
          /\ Goto(r, "build")
          /\ UNCHANGED resp
  /\ UNCHANGED <<req, ws>>

\* transform: Command::new("cargo").args(["build", ...]).output() and the
\* check of its exit status
CargoBuild(r) ==
  /\ pc[r] = "build"
  /\ req[r].kind = "transform"
  /\ IF req[r].fault = "spawn_cargo" \/ ~disk[ws[r]].exists
     THEN /\ Return(r, InternalServerError(<<"F","a","i","l","e","d"," ","t","o"," ","r","u","n"," ","c","a","r","g","o",":"," ">>))
          /\ UNCHANGED <<disk, hist>>
     ELSE LET out == Compile(disk[ws[r]], "build", req[r].fmt)
          IN  /\ disk' = [disk EXCEPT ![ws[r]].artifact = out.artifact]
              /\ hist' = [hist EXCEPT ![r].builds = @ + 1,
                                      ![r].build = <<[status |-> out.status, stderr |-> out.stderr]>>]
              /\ IF ~StatusSuccess(out.status)
                 THEN Return(r, CompileErrorResponse(out.stderr))
                 ELSE Goto(r, "exec") /\ UNCHANGED resp
  /\ UNCHANGED <<req, ws>>

\* validate: Command::new("cargo").args(["check", ...]).output() and what
\* follows it; a panic of parse_rust_errors unwinds the handler
CargoCheck(r) ==
  /\ pc[r] = "build"
  /\ req[r].kind = "validate"
  /\ IF req[r].fault = "spawn_cargo" \/ ~disk[ws[r]].exists
     THEN /\ Return(r, ValidationServiceError)
          /\ UNCHANGED hist
     ELSE LET out == Compile(disk[ws[r]], "check", req[r].fmt)
              panics == ~StatusSuccess(out.status) /\ parse_rust_errors(out.stderr).panic
          IN  /\ hist' = [hist EXCEPT ![r].checks = @ + 1,
                                      ![r].build = <<[status |-> out.status, stderr |-> out.stderr]>>,
                                      ![r].panicked = panics]
              /\ IF panics
                 THEN Goto(r, "drop") /\ UNCHANGED resp
                 ELSE Return(r, CheckResponse(out))
  /\ UNCHANGED <<req, ws, disk>>

\* Command::new(project_path.join("target/release/transform")).output() and
\* the decoding of what it printed
Execute(r) ==
  /\ pc[r] = "exec"
  /\ LET files == disk[ws[r]]
     IN  IF \/ req[r].fault = "spawn_bin"
            \/ ~files.exists
            \/ files.artifact = <<>>
            \/ (files.artifact # <<>> /\ files.artifact[1].name # "transform")
         THEN /\ Return(r, InternalServerError(<<"F","a","i","l","e","d"," ","t","o"," ","e","x","e","c","u","t","e"," ","t","r","a","n","s","f","o","r","m",":"," ">>))
              /\ hist' = [hist EXCEPT ![r].execs = @ + 1]
         ELSE LET out == RunArtifact(files.artifact[1], files)
              IN  /\ hist' = [hist EXCEPT ![r].execs = @ + 1, ![r].exec = <<out>>]
                  /\ Return(r, ExecResponse(out))
  /\ UNCHANGED <<req, ws, disk>>

\* the handler returns (or unwinds): temp_dir goes out of scope
Drop(r) ==
  /\ pc[r] = "drop"
  /\ disk' = RemoveDirAll(disk, ws[r])
  /\ ws' = [ws EXCEPT ![r] = 0]
  /\ hist' = [hist EXCEPT ![r].released = @ + 1]
  /\ Goto(r, IF hist[r].panicked THEN "panicked" ELSE "done")
  /\ UNCHANGED <<req, resp>>

Step(r) ==
  \/ TempDir(r)
  \/ CreateSrc(r)
  \/ WriteCargoToml(r)
  \/ WriteEventJson(r)
  \/ WriteMainRs(r)
  \/ CargoBuild(r)
  \/ CargoCheck(r)
  \/ Execute(r)
  \/ Drop(r)

\* one request at a time, over every input of the model
Next == Receive(1, Requests) \/ Step(1)

Spec == Init /\ [][Next]_vars

\* NumRequests requests in flight, interleaved step by step
NextConcurrent == \E r \in Handlers : Receive(r, ConcurrentRequests) \/ Step(r)

SpecConcurrent == Init /\ [][NextConcurrent]_vars

(***************************************************************************)
(* Properties.                                                             *)
(***************************************************************************)
Finished(r) == pc[r] = "done"

IsTransform(r) == req[r].kind = "transform"

IsValidate(r) == req[r].kind = "validate"

Status(r) == resp[r][1].status

Body(r) == resp[r][1].body

\* the compiler ran for r and exited nonzero
CompileFailed(r) == hist[r].build # <<>> /\ hist[r].build[1].status # 0

\* the artifact ran for r and exited nonzero
RuntimeFailed(r) == hist[r].exec # <<>> /\ hist[r].exec[1].status # 0

OwnedDirs(r) == {n \in Names : disk[n].exists /\ disk[n].owner = r}

\* C1: once a handler has returned (or unwound), on whichever path, its
\* workspace was released exactly once and no directory created for the
\* request exists; a handler never releases more than it opened.
WorkspaceReleased ==
  \A r \in Handlers :
    /\ hist[r].released <= hist[r].opened
    /\ hist[r].opened <= 1
    /\ pc[r] \in {"done", "panicked"} =>
         /\ hist[r].released = hist[r].opened
         /\ ws[r] = 0
         /\ OwnedDirs(r) = {}

\* a compile failure has been answered and the workspace it used is gone
WorkspaceReleasedWitness ==
  /\ Finished(1) /\ IsTransform(1) /\ CompileFailed(1)
  /\ Status(1) = 400
  /\ hist[1].opened = 1 /\ hist[1].released = 1

\* C2: a /transform request whose snippet returns the payload unchanged
\* answers success with transformedEvent equal to the submitted event, for
\* every payload, null included.
RoundTrip ==
  \A r \in Handlers :
    (Finished(r) /\ IsTransform(r) /\ req[r].code \in KeepSnippets /\ req[r].fault = "none") =>
      /\ Status(r) = 200
      /\ Body(r).success
      /\ Body(r).transformedEvent = <<req[r].event>>

\* the compiler's diagnostic names the harness line of the snippet's own
\* line k, in rustc's layout or in the one-line layout parse_rust_errors reads
PointsAtSnippetLine(r, k) ==
  /\ CompileFailed(r)
  /\ req[r].code.bad = k /\ k # 0
  /\ req[r].fmt \in {"rustc", "inline"}

\* C3: a /validate diagnostic for an error on the snippet's k-th line is
\* reported with line k, never with the line inside the harness.
LineAdjustment ==
  \A r \in Handlers : \A k \in 1..MaxSnippetLines :
    (Finished(r) /\ IsValidate(r) /\ PointsAtSnippetLine(r, k)) =>
      /\ Body(r).errors # <<>>
      /\ Body(r).errors[1].line = <<k>>

\* the artifact ran for r, exited zero, and this is its trimmed stdout
Printed(r) == Trim(hist[r].exec[1].stdout)

ExitedZero(r) == hist[r].exec # <<>> /\ hist[r].exec[1].status = 0

\* C4: when the artifact exits zero and its trimmed stdout is the token
\* null, /transform answers success with no transformedEvent, no error and
\* no traceback; for any other trimmed stdout that parses as JSON,
\* transformedEvent is the parsed value.
DiscardSemantics ==
  \A r \in Handlers :
    (Finished(r) /\ IsTransform(r) /\ ExitedZero(r)) =>
      /\ Printed(r) = <<"n","u","l","l">> =>
           resp[r] = <<HttpResponse(200, TransformResponse(TRUE, <<>>, <<>>, <<>>))>>
      /\ (Printed(r) # <<"n","u","l","l">> /\ from_str(Printed(r)) # <<>>) =>
           /\ Status(r) = 200
           /\ Body(r).success
           /\ Body(r).transformedEvent = from_str(Printed(r))
           /\ Body(r).transformedEvent # <<>>

\* a snippet returned None and the response carries no transformedEvent
DiscardSemanticsWitness ==
  /\ Finished(1) /\ IsTransform(1) /\ ExitedZero(1)
  /\ req[1].code.ret = "None"
  /\ Printed(1) = <<"n","u","l","l">>
  /\ Body(1).success /\ Body(1).transformedEvent = <<>>

\* the compiler could not be started for r
CompilerNotInvoked(r) ==
  /\ req[r].fault = "spawn_cargo"
  /\ "main.rs" \in hist[r].wrote
  /\ hist[r].build = <<>>

\* C5: when the compiler runs and exits nonzero, /transform answers 4xx,
\* success false, an error beginning "Compilation error: ", the compiler's
\* stderr as traceback, no transformedEvent, and never runs the artifact;
\* /validate answers valid false with a non-empty errors list.  A compiler
\* that could not be started is answered 5xx, not as a compilation error.
CompileFailureIsolation ==
  \A r \in Handlers :
    /\ (CompileFailed(r) /\ IsTransform(r)) =>
         /\ hist[r].execs = 0
         /\ pc[r] \in {"drop", "done"}
         /\ Status(r) \in 400..499
         /\ ~Body(r).success
         /\ StartsWith(Body(r).error[1], <<"C","o","m","p","i","l","a","t","i","o","n"," ","e","r","r","o","r",":"," ">>)
         /\ Body(r).traceback = <<hist[r].build[1].stderr>>
         /\ Body(r).transformedEvent = <<>>
    /\ (CompileFailed(r) /\ IsValidate(r)) =>
         /\ pc[r] \in {"drop", "done"}
         /\ resp[r] # <<>>
         /\ ~Body(r).valid
         /\ Body(r).errors # <<>>
    /\ (CompilerNotInvoked(r) /\ pc[r] \in {"drop", "done"}) =>
         /\ Status(r) \in 500..599
         /\ IsTransform(r) =>
              /\ ~StartsWith(Body(r).error[1], <<"C","o","m","p","i","l","a","t","i","o","n"," ","e","r","r","o","r",":"," ">>)
              /\ Body(r).traceback = <<>>

\* C6: a /transform response carries a traceback exactly when the compiler
\* or the artifact exited nonzero, and it is that subprocess's stderr.
TracebackPolicy ==
  \A r \in Handlers :
    (Finished(r) /\ IsTransform(r)) =>
      /\ Body(r).traceback # <<>> <=> (CompileFailed(r) \/ RuntimeFailed(r))
      /\ CompileFailed(r) => Body(r).traceback = <<hist[r].build[1].stderr>>
      /\ RuntimeFailed(r) => Body(r).traceback = <<hist[r].exec[1].stderr>>

\* the artifact printed something that is not JSON: an error, no traceback
TracebackPolicyWitness ==
  /\ Finished(1) /\ IsTransform(1) /\ ExitedZero(1)
  /\ from_str(Printed(1)) = <<>>
  /\ Status(1) = 500
  /\ Body(1).traceback = <<>> /\ Body(1).error # <<>>

\* the files a request's handler writes when nothing else touches its
\* directory
OwnFiles(q) ==
  [NoDir EXCEPT !.exists = TRUE, !.src = TRUE,
                !.cargo_toml = <<cargo_toml(q.kind)>>,
                !.event_json = IF q.kind = "transform" THEN <<to_string(q.event)>> ELSE <<>>,
                !.main_rs = <<main_rs(q.kind, q.code)>>]

\* the response of /transform to q served alone
TransformAlone(q) ==
  LET built == Compile(OwnFiles(q), "build", q.fmt)
  IN  CASE q.fault = "tempdir" -> InternalServerError(<<"F","a","i","l","e","d"," ","t","o"," ","c","r","e","a","t","e"," ","t","e","m","p"," ","d","i","r","e","c","t","o","r","y",":"," ">>)
        [] q.fault = "src" -> InternalServerError(<<"F","a","i","l","e","d"," ","t","o"," ","c","r","e","a","t","e"," ","s","r","c"," ","d","i","r","e","c","t","o","r","y",":"," ">>)
        [] q.fault = "cargo_toml" -> InternalServerError(<<"F","a","i","l","e","d"," ","t","o"," ","w","r","i","t","e"," ","C","a","r","g","o",".","t","o","m","l",":"," ">>)
        [] q.fault = "event_json" -> InternalServerError(<<"F","a","i","l","e","d"," ","t","o"," ","w","r","i","t","e"," ","e","v","e","n","t",".","j","s","o","n",":"," ">>)
        [] q.fault = "main_rs" -> InternalServerError(<<"F","a","i","l","e","d"," ","t","o"," ","w","r","i","t","e"," ","m","a","i","n",".","r","s",":"," ">>)
        [] q.fault = "spawn_cargo" -> InternalServerError(<<"F","a","i","l","e","d"," ","t","o"," ","r","u","n"," ","c","a","r","g","o",":"," ">>)
        [] OTHER ->
             IF built.status # 0 THEN CompileErrorResponse(built.stderr)
             ELSE IF q.fault = "spawn_bin"
                  THEN InternalServerError(<<"F","a","i","l","e","d"," ","t","o"," ","e","x","e","c","u","t","e"," ","t","r","a","n","s","f","o","r","m",":"," ">>)
             ELSE ExecResponse(RunArtifact(built.artifact[1], OwnFiles(q)))

\* the response of /validate to q served alone
ValidateAlone(q) ==
  IF q.fault # "none" THEN ValidationServiceError
  ELSE CheckResponse(Compile(OwnFiles(q), "check", q.fmt))

RunAlone(q) == IF q.kind = "transform" THEN TransformAlone(q) ELSE ValidateAlone(q)

\* C7: under any interleaving no two requests hold the same workspace, and
\* each request's response is the one it gets when served alone.
ConcurrencyIsolation ==
  /\ \A r1, r2 \in Handlers : (r1 # r2 /\ ws[r1] # 0) => ws[r1] # ws[r2]
  /\ \A r \in Handlers : resp[r] # <<>> => resp[r] = <<RunAlone(req[r])>>

\* two requests hold their workspaces at once, one answered with success
\* and its own payload, the other with a compile failure
ConcurrencyIsolationWitness ==
  /\ pc[1] = "drop" /\ pc[2] = "drop"
  /\ ws[1] # 0 /\ ws[2] # 0
  /\ IsTransform(1) /\ IsTransform(2)
  /\ resp[1] # <<>> /\ resp[2] # <<>>
  /\ Status(1) = 200 /\ Body(1).transformedEvent = <<JInt(1)>>
  /\ Status(2) = 400

\* no line of the text carries a source-position marker
NoPositionMarker(text) ==
  \A i \in 1..Len(Lines(text)) : ~Contains(Lines(text)[i], <<"-","-",">">>)

\* the first line of the text that is not blank
FirstNonEmptyLine(text) == FirstNonEmpty(Lines(text))

\* C8 as stated: when the compiler exits nonzero on /validate and stderr
\* holds no source-position marker, the response carries exactly one
\* diagnostic, with no line, no column and the first non-empty line of
\* stderr as its message.
DiagnosticsFallback ==
  \A r \in Handlers :
    (Finished(r) /\ IsValidate(r) /\ CompileFailed(r)
       /\ NoPositionMarker(hist[r].build[1].stderr)) =>
      /\ Len(Body(r).errors) = 1
      /\ Body(r).errors[1].line = <<>>
      /\ Body(r).errors[1].column = <<>>
      /\ <<Body(r).errors[1].message>> = FirstNonEmptyLine(hist[r].build[1].stderr)

\* no line of the text holds both the word error and the marker -->, the
\* lines parse_rust_errors looks at
NoErrorMarkerLine(text) ==
  \A i \in 1..Len(Lines(text)) :
    ~(Contains(Lines(text)[i], <<"e","r","r","o","r">>) /\ Contains(Lines(text)[i], <<"-","-",">">>))

\* C8 as amended: every /validate response carries at most one diagnostic,
\* and exactly one after a nonzero exit of the compiler; when no line of
\* stderr holds both "error" and "-->", that diagnostic has no line, no
\* column and the whole of stderr as its message.
DiagnosticsFallbackWholeStderr ==
  \A r \in Handlers :
    (IsValidate(r) /\ resp[r] # <<>>) =>
      /\ Len(Body(r).errors) <= 1
      /\ CompileFailed(r) =>
           /\ Len(Body(r).errors) = 1
           /\ NoErrorMarkerLine(hist[r].build[1].stderr) =>
                Body(r).errors[1] =
                  ValidationError(<<>>, <<>>, hist[r].build[1].stderr)

\* the compiler's stderr had several lines and no marker, and the one
\* diagnostic carries all of them
DiagnosticsFallbackWitness ==
  /\ Finished(1) /\ IsValidate(1) /\ CompileFailed(1)
  /\ req[1].fmt = "nomarker"
  /\ Len(Lines(hist[1].build[1].stderr)) > 1
  /\ Len(Body(1).errors) = 1
  /\ Body(1).errors[1].message = hist[1].build[1].stderr

\* C9: the artifact is run only after the one build of the request exited
\* zero and the manifest, the payload file and the harness were written;
\* build and execution are invoked at most once; /validate invokes only the
\* check-only build, never runs an artifact and writes no payload file.
StageOrdering ==
  \A r \in Handlers :
    /\ hist[r].builds <= 1 /\ hist[r].checks <= 1 /\ hist[r].execs <= 1
    /\ hist[r].execs > 0 =>
         /\ IsTransform(r)
         /\ hist[r].builds = 1
         /\ hist[r].build # <<>> /\ hist[r].build[1].status = 0
         /\ {"Cargo.toml", "event.json", "main.rs"} \subseteq hist[r].wrote
    /\ pc[r] = "exec" => (hist[r].builds = 1 /\ hist[r].build[1].status = 0)
    /\ IsValidate(r) =>
         /\ hist[r].builds = 0 /\ hist[r].execs = 0
         /\ "event.json" \notin hist[r].wrote
    /\ IsTransform(r) => hist[r].checks = 0

\* a transform ran its artifact once, after one successful build
StageOrderingWitness ==
  /\ Finished(1) /\ IsTransform(1)
  /\ hist[1].builds = 1 /\ hist[1].execs = 1
  /\ hist[1].exec # <<>>

\* cargo build accepts the transform harness of this snippet
TransformBuilds(code) == Diagnose(main_rs("transform", code)) = <<>>

\* C10: /validate answers valid true exactly for the snippets whose
\* /transform build succeeds.
ValidateTransformAgreement ==
  \A r \in Handlers :
    (Finished(r) /\ IsValidate(r) /\ req[r].fault = "none") =>
      (Body(r).valid <=> TransformBuilds(req[r].code))

====
